---- MODULE Spec2Model ----
(***************************************************************************)
(* Model of pythonSummary29ph50JZ7.py: one run of main() walks the start   *)
(* directory twice, writes the tree outline and the content blocks to the  *)
(* summary document and the ranked sizes to the lengths document.          *)
(*                                                                         *)
(* Strings (names, paths) are sequences of one-character strings.  File    *)
(* contents are sequences of bytes: "h" is an ASCII byte, "X" is a byte    *)
(* that is never valid in UTF-8 (0xFF).                                    *)
(***************************************************************************)
EXTENDS Integers, Sequences, FiniteSets, TLC

VARIABLES
    start,         \* start_directory, the working directory of the run
    fs,            \* the directory tree below start
    outFirst,      \* whether a listing yields a newly created file first
    pc,            \* "init", "walk" (second walk), "done" or "aborted"
    run,           \* number of runs of main started
    ts,            \* the clock reading (seconds) in the output names
    todo,          \* the (root, file) pairs of the second walk, in order
    idx,           \* position of the second walk in todo
    file_lengths,  \* the list of (length, filepath) of line 65
    summary,       \* the summary documents, by clock reading in their name
    lengths,       \* the lengths documents, by clock reading in their name
    prev,          \* history: the summary document the previous run left
    nwrites        \* history: writes of the lengths document in this run

vars == <<start, fs, outFirst, pc, run, ts, todo, idx, file_lengths,
          summary, lengths, prev, nwrites>>

-----------------------------------------------------------------------------
(* Bounds *)

MaxRuns == 2

-----------------------------------------------------------------------------
(* Program constants *)

sep == <<"/">>
identifier == <<"2", "9", "p", "h", "5", "0", "J", "Z", "7">>
base_name == <<"o", "u", "t", "p", "u", "t">>
skip_items == { <<"V", "m", ".", "j", "s", "o", "n">>,
                <<"V", "m", "S", "a", "f", "e", ".", "j", "s", "o", "n">> }

-----------------------------------------------------------------------------
(* String primitives (str.startswith, `in`, str.replace, str.count) *)

StartsWith(s, p) ==
    Len(s) >= Len(p) /\ SubSeq(s, 1, Len(p)) = p

MatchAt(s, sub, i) ==
    i + Len(sub) - 1 <= Len(s) /\ SubSeq(s, i, i + Len(sub) - 1) = sub

Contains(sub, s) ==
    \E i \in 1..(Len(s) + 1) : MatchAt(s, sub, i)

RECURSIVE ReplaceFrom(_, _, _, _)
ReplaceFrom(s, old, new, i) ==
    IF i > Len(s) THEN <<>>
    ELSE IF MatchAt(s, old, i)
         THEN new \o ReplaceFrom(s, old, new, i + Len(old))
         ELSE <<s[i]>> \o ReplaceFrom(s, old, new, i + 1)

Replace(s, old, new) == ReplaceFrom(s, old, new, 1)

RECURSIVE CountFrom(_, _, _)
CountFrom(s, sub, i) ==
    IF i > Len(s) THEN 0
    ELSE IF MatchAt(s, sub, i)
         THEN 1 + CountFrom(s, sub, i + Len(sub))
         ELSE CountFrom(s, sub, i + 1)

Count(s, sub) == CountFrom(s, sub, 1)

(* os.path.join(a, b) for a relative b *)
join(a, b) ==
    IF a # <<>> /\ a[Len(a)] = "/" THEN a \o b ELSE a \o sep \o b

RECURSIVE LastSep(_, _)
LastSep(s, i) ==
    IF i = 0 THEN 0 ELSE IF s[i] = "/" THEN i ELSE LastSep(s, i - 1)

(* os.path.basename: what follows the last separator *)
basename(p) == SubSeq(p, LastSep(p, Len(p)) + 1, Len(p))

(* os.path.relpath(filepath) with the working directory startpath, for a
   filepath below startpath: the components after those of startpath *)
relpath(filepath, startpath) ==
    IF startpath = sep
    THEN SubSeq(filepath, 2, Len(filepath))
    ELSE SubSeq(filepath, Len(startpath) + 2, Len(filepath))

-----------------------------------------------------------------------------
(* Files *)

(* is_text_file without the IOError clause of line 9 *)
is_text_file_NoIOError(f) ==
    \A i \in 1..Len(f.content) : f.content[i] # "X"

(* is_text_file: the file opens and its whole content decodes as UTF-8 *)
is_text_file(f) ==
    f.readable /\ \A i \in 1..Len(f.content) : f.content[i] # "X"

(* os.path.getsize *)
getsize(f) == Len(f.content)

should_skip_item(item_name, ident) ==
    StartsWith(item_name, <<".">>) \/ Contains(ident, item_name)

(* the directory filter without its skip_items clause *)
KeepDir_NoSkipList(d) ==
    ~StartsWith(d, <<".">>)

(* the filter of lines 20 and 69 on a child directory name *)
KeepDir(d) ==
    ~StartsWith(d, <<".">>) /\ d \notin skip_items

(* the filter of lines 30 and 72 on a file name *)
SkipFile(f) ==
    should_skip_item(f, identifier) \/ f \in skip_items

-----------------------------------------------------------------------------
(* The file system.  fs maps a directory id to its name and its listing   *)
(* (child directory ids, file records), in the order the listing yields.  *)
(* Directory 0 is the start directory, whose path is start.               *)

Root == 0

RECURSIVE os_walk(_, _, _)
RECURSIVE WalkChildren(_, _, _, _)

(* os.walk(top), top-down, with the in-place pruning of dirs that both
   callers do before the generator recurses (lines 20 and 69) *)
os_walk(F, d, root) ==
    LET kept == SelectSeq(F[d].dirs, LAMBDA c : KeepDir(F[c].name))
    IN  <<[root |-> root, files |-> F[d].files]>>
            \o WalkChildren(F, kept, root, 1)

WalkChildren(F, kept, root, i) ==
    IF i > Len(kept) THEN <<>>
    ELSE os_walk(F, kept[i], join(root, F[kept[i]].name))
            \o WalkChildren(F, kept, root, i + 1)

(* the lines create_directory_tree adds for one walked directory; a line
   is its indentation width, its label, whether it is a directory line
   (trailing "/"), and (auxiliary) the path of the entry it stands for *)
RECURSIVE FileLines(_, _, _, _, _, _)
FileLines(root, files, subindent, ident, skip, i) ==
    IF i > Len(files) THEN <<>>
    ELSE (IF ~should_skip_item(files[i].name, ident) /\ files[i].name \notin skip
          THEN <<[indent |-> subindent, label |-> files[i].name, dir |-> FALSE,
                  of |-> join(root, files[i].name)]>>
          ELSE <<>>)
         \o FileLines(root, files, subindent, ident, skip, i + 1)

level_of(root, startpath) == Count(Replace(root, startpath, <<>>), sep)

DirLines(e, startpath, ident, skip) ==
    LET level == level_of(e.root, startpath)
        bn == basename(e.root)
    IN  IF bn \notin skip /\ ~StartsWith(bn, <<".">>)
        THEN <<[indent |-> 4 * level, label |-> bn, dir |-> TRUE, of |-> e.root]>>
                \o FileLines(e.root, e.files, 4 * (level + 1), ident, skip, 1)
        ELSE <<>>

RECURSIVE TreeFrom(_, _, _, _, _)
TreeFrom(w, startpath, ident, skip, i) ==
    IF i > Len(w) THEN <<>>
    ELSE DirLines(w[i], startpath, ident, skip)
            \o TreeFrom(w, startpath, ident, skip, i + 1)

create_directory_tree(F, startpath, ident, skip) ==
    TreeFrom(os_walk(F, Root, startpath), startpath, ident, skip, 1)

(* the (root, file) pairs the loops of lines 67 and 71 go through, in order *)
RECURSIVE PairsOf(_, _)
PairsOf(e, i) ==
    IF i > Len(e.files) THEN <<>>
    ELSE <<[root |-> e.root, file |-> e.files[i]]>> \o PairsOf(e, i + 1)

RECURSIVE PairsFrom(_, _)
PairsFrom(w, i) ==
    IF i > Len(w) THEN <<>> ELSE PairsOf(w[i], 1) \o PairsFrom(w, i + 1)

Candidates(F, startpath) == PairsFrom(os_walk(F, Root, startpath), 1)

-----------------------------------------------------------------------------
(* Output documents *)

(* strftime("%Y_%m_%d_%H_%M_%S") of the clock reading: the seconds vary *)
strftime(now) ==
    <<"2", "0", "2", "6", "_", "0", "1", "_", "0", "1", "_",
      "0", "0", "_", "0", "0", "_", "0">> \o <<ToString(now)>>

(* output names that leave the identifier out *)
generate_output_filenames_NoId(base, now) ==
    <<base \o <<"_">> \o strftime(now)
          \o <<"_", "s", "u", "m", "m", "a", "r", "y", ".", "t", "x", "t">>,
      base \o <<"_">> \o strftime(now)
          \o <<"_", "l", "e", "n", "g", "t", "h", "s", ".", "t", "x", "t">>>>

generate_output_filenames(base, now) ==
    <<base \o <<"_">> \o strftime(now) \o <<"_">> \o identifier
          \o <<"_", "s", "u", "m", "m", "a", "r", "y", ".", "t", "x", "t">>,
      base \o <<"_">> \o strftime(now) \o <<"_">> \o identifier
          \o <<"_", "l", "e", "n", "g", "t", "h", "s", ".", "t", "x", "t">>>>

NoSummary == [exists |-> FALSE, tree |-> <<>>, blocks |-> <<>>]
NoLengths == [exists |-> FALSE, total |-> 0, entries |-> <<>>]

HasFile(files, name) == \E i \in 1..Len(files) : files[i].name = name

(* open(name, 'w') in the start directory: the file is created when it is
   not there; the listing yields a new file before or after the others *)
Create(F, name, first) ==
    IF HasFile(F[Root].files, name) THEN F
    ELSE LET nf == [name |-> name, content |-> <<>>, readable |-> TRUE]
         IN  [F EXCEPT ![Root].files =
                  IF first THEN <<nf>> \o @ ELSE Append(@, nf)]

(* list.sort(reverse=True, key=lambda x: x[0]): the list is reversed,
   sorted stably in ascending key order, and reversed again *)
RECURSIVE Reverse(_)
Reverse(s) == IF s = <<>> THEN <<>> ELSE Reverse(Tail(s)) \o <<Head(s)>>

RECURSIVE InsertAsc(_, _)
InsertAsc(sorted, x) ==
    IF sorted = <<>> THEN <<x>>
    ELSE IF x.length < Head(sorted).length THEN <<x>> \o sorted
         ELSE <<Head(sorted)>> \o InsertAsc(Tail(sorted), x)

RECURSIVE StableAsc(_)
StableAsc(s) ==
    IF s = <<>> THEN <<>>
    ELSE InsertAsc(StableAsc(SubSeq(s, 1, Len(s) - 1)), s[Len(s)])

(* a descending order obtained by reversing the ascending one *)
sort_reverse_Unstable(s) == Reverse(StableAsc(s))

sort_reverse(s) == Reverse(StableAsc(Reverse(s)))

(* a sum that stops one element short *)
RECURSIVE total_length_DropLast(_)
total_length_DropLast(s) ==
    IF Len(s) <= 1 THEN 0 ELSE Head(s).length + total_length_DropLast(Tail(s))

RECURSIVE total_length(_)
total_length(s) ==
    IF s = <<>> THEN 0 ELSE Head(s).length + total_length(Tail(s))

RECURSIVE LengthEntries(_, _, _)
LengthEntries(s, startpath, i) ==
    IF i > Len(s) THEN <<>>
    ELSE <<[path |-> relpath(s[i].filepath, startpath), length |-> s[i].length]>>
            \o LengthEntries(s, startpath, i + 1)

-----------------------------------------------------------------------------
(* Initial file systems: the start directory holds one file and one       *)
(* directory, which holds one file and one directory with one file.  The  *)
(* file of the start directory takes every name and every content; the    *)
(* file one level down an ordinary name or one with the identifier; the   *)
(* file two levels down is an ordinary text file of either size.  An      *)
(* unreadable file has one content only, since nothing ever reads it.     *)

StartPaths == { <<"/", "a">>, <<"/", ".", "a">> }

DirNames == { <<"a">>, <<".", "a">>, <<"V", "m", ".", "j", "s", "o", "n">>,
              <<"b">> \o identifier }

SubDirNames == { <<"b">>, <<".", "a">> }

FileNames == { <<"f">>, <<".", "f">>,
               <<"V", "m", "S", "a", "f", "e", ".", "j", "s", "o", "n">>,
               <<"f">> \o identifier }

SubFileNames == { <<"f">>, <<"f">> \o identifier }

Contents == { <<"h">>, <<"h", "h">>, <<"X">> }

Files ==
    [name : FileNames, content : Contents, readable : {TRUE}]
        \cup [name : FileNames, content : {<<"h">>}, readable : {FALSE}]

Decodes0(f) == f.readable /\ \A i \in 1..Len(f.content) : f.content[i] = "h"

FileSystems ==
    { (0 :> [name |-> <<>>, dirs |-> <<1>>, files |-> <<f0>>]) @@
      (1 :> [name |-> d1, dirs |-> <<2>>, files |-> <<f1>>]) @@
      (2 :> [name |-> d2, dirs |-> <<>>, files |-> <<f2>>]) :
        d1 \in DirNames, d2 \in SubDirNames, f0 \in Files,
        f1 \in {f \in Files : f.name \in SubFileNames},
        f2 \in {f \in Files : f.name = <<"f">> /\ Decodes0(f)} }

Init ==
    /\ start \in StartPaths
    /\ fs \in FileSystems
    /\ outFirst \in BOOLEAN
    /\ pc = "init"
    /\ run = 0
    /\ ts = 1
    /\ nwrites = 0
    /\ todo = <<>>
    /\ idx = 1
    /\ file_lengths = <<>>
    /\ summary = [t \in 1..MaxRuns |-> NoSummary]
    /\ lengths = [t \in 1..MaxRuns |-> NoLengths]
    /\ prev = NoSummary

-----------------------------------------------------------------------------
(* main *)

(* lines 50-65: the output names are generated from the clock reading
   now (the second of the previous run or a later one), the summary
   document is created or truncated, the tree is built and written to it *)
StartRun ==
    /\ pc = "init" \/ (pc = "done" /\ run < MaxRuns)
    /\ \E now \in {ts, ts + 1} :
          /\ run = 0 => now = ts
          /\ now <= MaxRuns
          /\ LET names == generate_output_filenames(base_name, now)
                 F == Create(fs, names[1], outFirst)
             IN  /\ fs' = F
                 /\ summary' = [summary EXCEPT ![now] =
                        [exists |-> TRUE,
                         tree |-> create_directory_tree(F, start, identifier,
                                                        skip_items),
                         blocks |-> <<>>]]
                 /\ todo' = Candidates(F, start)
          /\ ts' = now
    /\ prev' = IF run = 0 THEN NoSummary ELSE summary[ts]
    /\ nwrites' = 0
    /\ idx' = 1
    /\ file_lengths' = <<>>
    /\ pc' = "walk"
    /\ run' = run + 1
    /\ UNCHANGED <<start, outFirst, lengths>>

Current == todo[idx]
filepath == join(Current.root, Current.file.name)

(* lines 72-73: continue *)
SkipStep ==
    /\ pc = "walk" /\ idx <= Len(todo)
    /\ SkipFile(Current.file.name)
    /\ idx' = idx + 1
    /\ UNCHANGED <<start, fs, outFirst, pc, run, ts, todo, file_lengths,
                   summary, lengths, prev, nwrites>>

(* line 76: is_text_file returns False *)
RejectStep ==
    /\ pc = "walk" /\ idx <= Len(todo)
    /\ ~SkipFile(Current.file.name)
    /\ ~is_text_file(Current.file)
    /\ idx' = idx + 1
    /\ UNCHANGED <<start, fs, outFirst, pc, run, ts, todo, file_lengths,
                   summary, lengths, prev, nwrites>>

(* append_file_content, lines 35-37: the header of the block *)
OpenBlock(doc, fp) ==
    [doc EXCEPT !.blocks = Append(@, [path |-> relpath(fp, start),
                                     content |-> <<>>, closed |-> FALSE])]

(* append_file_content, lines 38-40: the content and the closing delimiter *)
CloseBlock(doc, f) ==
    [doc EXCEPT !.blocks[Len(doc.blocks)] =
        [@ EXCEPT !.content = f.content, !.closed = TRUE]]

(* line 78 with an assignment in place of the append *)
Record_Overwrite(fl, f, fp) == <<[length |-> getsize(f), filepath |-> fp]>>

(* line 78 *)
Record(fl, f, fp) == Append(fl, [length |-> getsize(f), filepath |-> fp])

(* lines 76-79 *)
AppendStep ==
    /\ pc = "walk" /\ idx <= Len(todo)
    /\ ~SkipFile(Current.file.name)
    /\ is_text_file(Current.file)
    /\ file_lengths' = Record(file_lengths, Current.file, filepath)
    /\ summary' = [summary EXCEPT ![ts] =
                      CloseBlock(OpenBlock(@, filepath), Current.file)]
    /\ idx' = idx + 1
    /\ UNCHANGED <<start, fs, outFirst, pc, run, ts, todo, lengths, prev,
                   nwrites>>

(* the file is deleted after line 76 and before line 77: os.path.getsize
   raises, nothing catches it *)
GetsizeFails ==
    /\ pc = "walk" /\ idx <= Len(todo)
    /\ ~SkipFile(Current.file.name)
    /\ is_text_file(Current.file)
    /\ pc' = "aborted"
    /\ UNCHANGED <<start, fs, outFirst, run, ts, todo, idx, file_lengths,
                   summary, lengths, prev, nwrites>>

(* the exception of line 38 caught and dropped *)
Raise_Swallowed(p) == p

(* the effect of the exception of line 38 on the control state *)
Raise(p) == "aborted"

(* the file is deleted after line 77 and before line 38: open raises inside
   append_file_content after the header was written; nothing catches it *)
AppendFails ==
    /\ pc = "walk" /\ idx <= Len(todo)
    /\ ~SkipFile(Current.file.name)
    /\ is_text_file(Current.file)
    /\ file_lengths' = Record(file_lengths, Current.file, filepath)
    /\ summary' = [summary EXCEPT ![ts] = OpenBlock(@, filepath)]
    /\ pc' = Raise(pc)
    /\ idx' = IF pc' = "aborted" THEN idx ELSE idx + 1
    /\ UNCHANGED <<start, fs, outFirst, run, ts, todo, lengths, prev,
                   nwrites>>

(* lines 81-92 indented into the loop *)
walk_ended_Early(i, t) == TRUE

(* the loop of line 67 has no directory left to yield *)
walk_ended(i, t) == i > Len(t)

(* lines 81-92, after the walk has ended *)
WriteLengths ==
    /\ pc = "walk" /\ walk_ended(idx, todo)
    /\ LET sorted == sort_reverse(file_lengths)
           names == generate_output_filenames(base_name, ts)
       IN  /\ file_lengths' = sorted
           /\ lengths' = [lengths EXCEPT ![ts] =
                  [exists |-> TRUE,
                   total |-> total_length(sorted),
                   entries |-> LengthEntries(sorted, start, 1)]]
           /\ fs' = Create(fs, names[2], outFirst)
    /\ pc' = "done"
    /\ nwrites' = nwrites + 1
    /\ UNCHANGED <<start, outFirst, run, ts, todo, idx, summary, prev>>

Next ==
    \/ StartRun
    \/ SkipStep
    \/ RejectStep
    \/ AppendStep
    \/ GetsizeFails
    \/ AppendFails
    \/ WriteLengths

Spec == Init /\ [][Next]_vars

TypeOK ==
    /\ pc \in {"init", "walk", "done", "aborted"}
    /\ run \in 0..MaxRuns
    /\ idx \in 1..(Len(todo) + 1)
    /\ ts \in 1..MaxRuns
    /\ nwrites \in 0..1

-----------------------------------------------------------------------------
(* Vocabulary of the properties, stated on names and documents alone *)

Doc == summary[ts]
LDoc == lengths[ts]

Hidden(n) == n # <<>> /\ n[1] = "."
HasIdentifier(n) ==
    \E i \in 1..Len(n) :
        /\ i + 8 <= Len(n)
        /\ <<n[i], n[i+1], n[i+2], n[i+3], n[i+4], n[i+5], n[i+6], n[i+7], n[i+8]>>
               = <<"2", "9", "p", "h", "5", "0", "J", "Z", "7">>
InSkipList(n) ==
    \/ n = <<"V", "m", ".", "j", "s", "o", "n">>
    \/ n = <<"V", "m", "S", "a", "f", "e", ".", "j", "s", "o", "n">>

(* the components of a path *)
RECURSIVE Components(_)
Components(p) ==
    IF p = <<>> THEN <<>>
    ELSE LET n == CHOOSE k \in 1..(Len(p) + 1) :
                      /\ k = Len(p) + 1 \/ p[k] = "/"
                      /\ \A j \in 1..(k - 1) : p[j] # "/"
             rest == Components(SubSeq(p, n + 1, Len(p)))
         IN  IF n = 1 THEN rest ELSE <<SubSeq(p, 1, n - 1)>> \o rest

(* the path of an entry relative to the start directory, as components *)
Below(p) == SubSeq(Components(p), Len(Components(start)) + 1, Len(Components(p)))

Range(s) == {s[i] : i \in 1..Len(s)}

BlockPaths == [i \in 1..Len(Doc.blocks) |-> Doc.blocks[i].path]
EntryPaths == [i \in 1..Len(LDoc.entries) |-> LDoc.entries[i].path]

(* a file the classifier accepts: it can be read and is valid UTF-8 *)
Decodes(f) == f.readable /\ "X" \notin Range(f.content)

(* the files the second walk has to embed: neither skipped by name nor
   rejected by the classifier *)
Qualifies(t) ==
    /\ ~Hidden(t.file.name) /\ ~HasIdentifier(t.file.name)
    /\ ~InSkipList(t.file.name)
    /\ Decodes(t.file)

PathOf(t) == Components(t.root) \o <<t.file.name>>

(* the path of a walked file relative to the start directory *)
RelOf(t) == SubSeq(PathOf(t), Len(Components(start)) + 1, Len(PathOf(t)))

(* the relative paths of the qualifying files among todo[1..n], in order *)
RECURSIVE Discovered(_)
Discovered(n) ==
    IF n = 0 THEN <<>>
    ELSE Discovered(n - 1) \o
         (IF Qualifies(todo[n]) THEN <<RelOf(todo[n])>> ELSE <<>>)

ComponentsOfAll(paths) == [i \in 1..Len(paths) |-> Components(paths[i])]

-----------------------------------------------------------------------------
(* Name filtering *)

DirAllowed(n) == ~Hidden(n) /\ ~InSkipList(n)
DirAllowedStrict(n) == ~Hidden(n) /\ ~InSkipList(n) /\ ~HasIdentifier(n)
FileAllowed(n) == ~Hidden(n) /\ ~InSkipList(n) /\ ~HasIdentifier(n)

(* c is the path of a file: its name passes the file filter and every
   directory on the way passes DirOk *)
FilePathClean(c, DirOk(_)) ==
    /\ c # <<>>
    /\ FileAllowed(c[Len(c)])
    /\ \A i \in 1..(Len(c) - 1) : DirOk(c[i])

DirPathClean(c, DirOk(_)) == \A i \in 1..Len(c) : DirOk(c[i])

OutputsClean(DirOk(_)) ==
    \A t \in 1..MaxRuns :
        /\ \A i \in 1..Len(summary[t].tree) :
              LET l == summary[t].tree[i]
              IN  IF l.dir
                  THEN DirOk(l.label) /\ DirPathClean(Below(l.of), DirOk)
                  ELSE FileAllowed(l.label) /\ FilePathClean(Below(l.of), DirOk)
        /\ \A i \in 1..Len(summary[t].blocks) :
              FilePathClean(Components(summary[t].blocks[i].path), DirOk)
        /\ \A i \in 1..Len(lengths[t].entries) :
              FilePathClean(Components(lengths[t].entries[i].path), DirOk)

(* C1, as amended: a file whose name starts with ".", contains the run
   identifier or is in skip_items, and a directory whose name starts with
   "." or is in skip_items, appears in no tree line, no content block and
   no lengths entry, and nothing below such a directory appears either.  A
   directory whose name only contains the run identifier is walked. *)
C1_Filtered == OutputsClean(DirAllowed)

(* C1, as claimed: the same, with directories whose name contains the run
   identifier excluded as well *)
C1_Original == OutputsClean(DirAllowedStrict)

C1_Witness ==
    /\ pc = "done"
    /\ Hidden(fs[2].name) /\ Decodes(fs[2].files[1])
    /\ ~Hidden(fs[1].name) /\ ~InSkipList(fs[1].name)
    /\ \E i \in 1..Len(fs[Root].files) :
          InSkipList(fs[Root].files[i].name) /\ Decodes(fs[Root].files[i])
    /\ Len(Doc.blocks) = 1
    /\ Len(LDoc.entries) = 1

-----------------------------------------------------------------------------
(* The two documents of a completed run *)

(* C2: when a run has completed, the paths with a content block are the
   paths listed in the lengths document, each listed exactly once *)
C2_SamePaths ==
    pc = "done" =>
        /\ Range(BlockPaths) = Range(EntryPaths)
        /\ \A i, j \in 1..Len(EntryPaths) :
              EntryPaths[i] = EntryPaths[j] => i = j

C2_Witness ==
    pc = "done" /\ Len(Doc.blocks) = 3 /\ Len(LDoc.entries) = 3

RECURSIVE SumOfEntries(_, _)
SumOfEntries(e, n) ==
    IF n = 0 THEN 0 ELSE SumOfEntries(e, n - 1) + e[n].length

(* C3: the total of a lengths document is the sum of the lengths of its
   entries, 0 when it has none *)
C3_Total ==
    \A t \in 1..MaxRuns :
        lengths[t].exists =>
            lengths[t].total = SumOfEntries(lengths[t].entries,
                                            Len(lengths[t].entries))

C3_Witness ==
    pc = "done" /\ Len(LDoc.entries) = 3 /\ LDoc.total = 4

PositionIn(s, x) == CHOOSE i \in 1..Len(s) : s[i] = x

(* C4: the entries of the lengths document are in non-increasing order of
   length, and entries of equal length are in the order of their content
   blocks, which is the order of discovery *)
C4_SortedStable ==
    pc = "done" =>
        \A i, j \in 1..Len(LDoc.entries) :
            i < j =>
                /\ LDoc.entries[i].length >= LDoc.entries[j].length
                /\ LDoc.entries[i].length = LDoc.entries[j].length =>
                      PositionIn(BlockPaths, LDoc.entries[i].path)
                          < PositionIn(BlockPaths, LDoc.entries[j].path)

C4_Witness ==
    /\ pc = "done"
    /\ Len(LDoc.entries) = 3
    /\ LDoc.entries[1].length > LDoc.entries[2].length
    /\ LDoc.entries[2].length = LDoc.entries[3].length
    /\ BlockPaths[1] = LDoc.entries[2].path
    /\ BlockPaths[2] = LDoc.entries[1].path

-----------------------------------------------------------------------------
(* Files the classifier rejects *)

RECURSIVE SumQualifying(_)
SumQualifying(n) ==
    IF n = 0 THEN 0
    ELSE SumQualifying(n - 1)
            + (IF Qualifies(todo[n]) THEN Len(todo[n].file.content) ELSE 0)

NoBlockNoEntry(t) ==
    /\ \A i \in 1..Len(Doc.blocks) : Components(Doc.blocks[i].path) # RelOf(t)
    /\ \A i \in 1..Len(LDoc.entries) : Components(LDoc.entries[i].path) # RelOf(t)

NoTreeLine(t) ==
    \A i \in 1..Len(Doc.tree) :
        ~Doc.tree[i].dir => Below(Doc.tree[i].of) # RelOf(t)

(* C5, as amended: a file that cannot be read or is not valid UTF-8 gets
   no content block and no lengths entry, adds nothing to the total, and
   never ends the run; the tree outline may still list it *)
C5_Excluded ==
    /\ \A n \in 1..Len(todo) : ~Decodes(todo[n].file) => NoBlockNoEntry(todo[n])
    /\ pc = "done" => LDoc.total = SumQualifying(Len(todo))
    /\ pc = "done" => idx = Len(todo) + 1
    /\ pc = "aborted" => Decodes(todo[idx].file)

(* C5, as claimed: such a file appears nowhere in the summary document,
   the tree outline included *)
C5_Original ==
    /\ C5_Excluded
    /\ \A n \in 1..Len(todo) : ~Decodes(todo[n].file) => NoTreeLine(todo[n])

C5_Witness ==
    /\ pc = "done"
    /\ \E n, m \in 1..Len(todo) :
          /\ "X" \in Range(todo[n].file.content)
          /\ ~todo[m].file.readable
          /\ FileAllowed(todo[n].file.name) /\ FileAllowed(todo[m].file.name)
          /\ ~NoTreeLine(todo[n]) /\ ~NoTreeLine(todo[m])
    /\ Len(Doc.blocks) = 1
    /\ LDoc.total = 2

-----------------------------------------------------------------------------
(* Two runs in succession *)

OutputNames ==
    UNION { Range(generate_output_filenames(base_name, t)) : t \in 1..MaxRuns }

NoOutputListed ==
    \A t \in 1..MaxRuns :
        /\ \A i \in 1..Len(summary[t].tree) :
              summary[t].tree[i].label \notin OutputNames
        /\ \A i \in 1..Len(summary[t].blocks) :
              LET c == Components(summary[t].blocks[i].path)
              IN  c[Len(c)] \notin OutputNames
        /\ \A i \in 1..Len(lengths[t].entries) :
              LET c == Components(lengths[t].entries[i].path)
              IN  c[Len(c)] \notin OutputNames

(* C6: a second run over the same directory leaves a summary document with
   the tree and the content blocks of the first, and no output file of
   either run is ever listed, embedded or recorded *)
C6_Rerun ==
    /\ NoOutputListed
    /\ (pc = "done" /\ run >= 2) =>
           /\ Doc.tree = prev.tree
           /\ Doc.blocks = prev.blocks

C6_Witness ==
    /\ pc = "done" /\ run = 2 /\ ts = 2
    /\ Len(fs[Root].files) = 5
    /\ Len(Doc.blocks) >= 2
    /\ prev.exists /\ Len(prev.tree) >= 3

-----------------------------------------------------------------------------
(* A read failure inside append_file_content *)

Unclosed(d) == \E i \in 1..Len(d.blocks) : ~d.blocks[i].closed

(* C7: when the read of line 38 fails, the run ends there: the block of
   that file stays open at the end of the summary document, the blocks
   before it are complete, no later file has a block, and the lengths
   document is not written *)
C7_Fatal ==
    Unclosed(Doc) =>
        /\ pc = "aborted"
        /\ nwrites = 0
        /\ run = 1 => ~LDoc.exists
        /\ idx <= Len(todo)
        /\ ComponentsOfAll(BlockPaths) = Discovered(idx)
        /\ \A i \in 1..Len(Doc.blocks) : Doc.blocks[i].closed <=> i < Len(Doc.blocks)

C7_Witness ==
    /\ pc = "aborted" /\ Unclosed(Doc)
    /\ Len(Doc.blocks) = 2
    /\ \E m \in (idx + 1)..Len(todo) : Qualifies(todo[m])

-----------------------------------------------------------------------------
(* Order of the writes *)

C8_State ==
    /\ pc # "init" => Doc.exists
    /\ pc \in {"walk", "done"} =>
          ComponentsOfAll(BlockPaths) = Discovered(idx - 1)
    /\ pc = "done" <=> nwrites = 1
    /\ pc = "done" => idx = Len(todo) + 1

C8_Step ==
    /\ run' # run =>
          /\ Doc'.blocks = <<>>
          /\ pc' = "walk" /\ idx' = 1 /\ nwrites' = 0
    /\ run' = run =>
          /\ Doc'.tree = Doc.tree
          /\ Len(Doc'.blocks) <= Len(Doc.blocks) + 1
          /\ SubSeq(Doc'.blocks, 1, Len(Doc.blocks)) = Doc.blocks
    /\ lengths' # lengths =>
          /\ pc = "walk" /\ pc' = "done"
          /\ nwrites' = nwrites + 1
          /\ summary' = summary

(* C8: in every run, the summary document is created with the whole tree
   before any content block; blocks are then appended one at a time in the
   order of discovery, the tree unchanged; and the lengths document is
   written once, when the walk has ended and every block is appended *)
C8_Order == []C8_State /\ [][C8_Step]_vars

C8_Witness ==
    /\ pc = "done" /\ nwrites = 1
    /\ Len(Doc.tree) = 5
    /\ Len(Doc.blocks) = 2
    /\ LDoc.exists

-----------------------------------------------------------------------------
(* The tree outline *)

(* C9: a directory line is indented by 4 spaces per level below the start
   directory and labelled by the directory's name, a file line by 4 spaces
   per level of the file *)
C9_Indent ==
    \A t \in 1..MaxRuns :
        \A i \in 1..Len(summary[t].tree) :
            LET l == summary[t].tree[i]
            IN  /\ l.indent = 4 * Len(Below(l.of))
                /\ l.label = basename(l.of)

(* C10: when a run has completed, every file with a content block has a
   file line in the tree *)
C10_Agree ==
    pc = "done" =>
        \A i \in 1..Len(Doc.blocks) :
            \E k \in 1..Len(Doc.tree) :
                /\ ~Doc.tree[k].dir
                /\ Below(Doc.tree[k].of) = Components(Doc.blocks[i].path)

====
